---- MODULE Spec2Model ----
(***************************************************************************)
(* Model of scripts/data/client.py: the weighted admission pipeline.       *)
(* One producer thread (job_producer) pulls jobs from job_generator and    *)
(* admits them to the bounded job_queue under the weight ledger            *)
(* (current_weight, guarded by weight_lock); THREAD_POOL_SIZE worker       *)
(* threads (job_consumer) pull entries, run process_batch / run on them    *)
(* and release the weight.  A signal handler sets the cancellation token   *)
(* at any time.  Every thread is a small program counter machine whose     *)
(* steps are the source's statements that touch shared state.              *)
(***************************************************************************)
EXTENDS Integers, Sequences, FiniteSets, TLC

\* ---- program constants -------------------------------------------------
\* MAX_WEIGHT_LIMIT is 8000 unless --maxweight sets it, THREAD_POOL_SIZE is
\* os.cpu_count(); the model takes a ceiling of 2 and two workers, so that
\* weights 0..MaxWeight cover jobs that fit together (1 + 1), jobs that do
\* not (2 + 1) and a job heavier than the ceiling (3).
MAX_WEIGHT_LIMIT == 2
THREAD_POOL_SIZE == 2
QUEUE_MAX_SIZE == THREAD_POOL_SIZE * 2

\* ---- bounds of the model -----------------------------------------------
\* number of heights in height_range, and the largest weight a job can have
MaxJobs == 5
MaxWeight == 3

Workers == 1..THREAD_POOL_SIZE
JobIds == 1..MaxJobs
Weights == 0..MaxWeight

\* A queue entry is a pair (job, weight); a job is identified by n, its rank
\* among the jobs yielded by job_generator.  queue.put(None), the
\* end-of-stream sentinel, is the entry of rank 0.
Sentinel == [n |-> 0, w |-> 0]
IsJob(e) == e.n # 0

VARIABLES
    cancelled,        \* CancellationToken._is_cancelled
    current_weight,   \* the ledger
    job_queue,        \* queue.Queue(maxsize=QUEUE_MAX_SIZE), head first
    weight_lock,      \* "free" or "producer" (workers hold it within one step)
    ppc,              \* producer's position
    idx,              \* heights of height_range consumed by job_generator
    pjob,             \* the (job, weight) the producer is trying to admit
    sentinels,        \* sentinels put so far in the finally block
    wpc,              \* each worker's position
    work,             \* work_to_do of each worker
    child,            \* each worker's child process: none / running
    outcome,          \* how process_batch ended for the worker's current job
    yielded,          \* history: jobs yielded by job_generator, in order
    admitted,         \* history: jobs put on job_queue, in order
    dequeued,         \* history: jobs taken off job_queue, in order
    warned,           \* the "over the weight limit" warning was logged for pjob
    relCount,         \* history: number of times each job's weight was subtracted
    executed,         \* history: jobs handed to process_job
    mpc,              \* main's position
    summary,          \* the final log line of main
    gen,              \* a job_generator call taken by itself: inputs and progress
    pb                \* a process_batch call taken by itself: inputs and report

vars == <<cancelled, current_weight, job_queue, weight_lock, ppc, idx, pjob,
          sentinels, wpc, work, child, outcome, yielded, admitted, dequeued,
          warned, relCount, executed, mpc, summary, gen, pb>>

pvars == <<ppc, idx, pjob, sentinels, yielded, admitted, warned>>
wvars == <<wpc, work, child, outcome, dequeued, relCount, executed>>
\* main's state, and the state of the calls that are studied by themselves
mvars == <<mpc, summary>>
uvars == <<gen, pb>>

RECURSIVE SumW(_)
SumW(s) == IF s = <<>> THEN 0 ELSE Head(s).w + SumW(Tail(s))

full(q) == Len(q) >= QUEUE_MAX_SIZE

\* a queue.LifoQueue would hand out the newest entry first
put_lifo(q, e) == <<e>> \o q

\* job_queue is a queue.Queue: put appends, get takes the head
put(q, e) == Append(q, e)

\* no call is being studied by itself
NoCall == [st |-> "idle"]

\* the threads of main before any of them has taken a step
InitThreads ==
    /\ cancelled = FALSE
    /\ current_weight = 0
    /\ job_queue = <<>>
    /\ weight_lock = "free"
    /\ ppc = "gen"
    /\ idx = 0
    /\ pjob = Sentinel
    /\ sentinels = 0
    /\ wpc = [w \in Workers |-> "loop"]
    /\ work = [w \in Workers |-> Sentinel]
    /\ child = [w \in Workers |-> "none"]
    /\ outcome = [w \in Workers |-> "none"]
    /\ yielded = <<>>
    /\ admitted = <<>>
    /\ dequeued = <<>>
    /\ warned = FALSE
    /\ relCount = [n \in JobIds |-> 0]
    /\ executed = {}
    /\ mpc = "start"
    /\ summary = "none"

Init ==
    /\ InitThreads
    /\ gen = NoCall
    /\ pb = NoCall

\* ---- the signal handler ------------------------------------------------
Cancel ==
    /\ ~cancelled
    /\ cancelled' = TRUE
    /\ UNCHANGED <<current_weight, job_queue, weight_lock, pvars, wvars,
                   mvars, uvars>>

\* ---- job_producer ------------------------------------------------------
\* a wait predicate that forgets the weight budget
MustWait_noBudget(cw, w, q) ==
    full(q)

\* a wait predicate that forgets the queue's capacity
MustWait_noFull(cw, w, q) ==
    (cw + w > MAX_WEIGHT_LIMIT) /\ cw # 0

\* a wait predicate without the exemption of the idle ledger
MustWait_noIdle(cw, w, q) ==
    (cw + w > MAX_WEIGHT_LIMIT) \/ full(q)

\* a wait predicate that exempts every ledger not above the job's weight
MustWait_looseIdle(cw, w, q) ==
    ((cw + w > MAX_WEIGHT_LIMIT) /\ cw > w) \/ full(q)

\* the producer's wait predicate without the cancellation conjunct
MustWait(cw, w, q) ==
    ((cw + w > MAX_WEIGHT_LIMIT) /\ cw # 0) \/ full(q)

\* a warning condition that is off by one
OverLimit_offByOne(cw, w) ==
    (cw + w >= MAX_WEIGHT_LIMIT) /\ cw = 0

\* the condition of the "over the weight limit" warning
OverLimit(cw, w) ==
    (cw + w > MAX_WEIGHT_LIMIT) /\ cw = 0

\* for job, weight in job_gen: the generator ends on exhaustion or when it
\* sees the token; a failing generate_data skips the height; else it yields
P_gen ==
    /\ ppc = "gen"
    /\ \/ /\ idx = MaxJobs \/ cancelled
          /\ ppc' = "fin"
          /\ UNCHANGED <<idx, pjob, yielded>>
       \/ /\ idx < MaxJobs /\ ~cancelled
          /\ idx' = idx + 1
          /\ UNCHANGED <<ppc, pjob, yielded>>
       \/ /\ idx < MaxJobs /\ ~cancelled
          /\ \E w \in Weights :
                pjob' = [n |-> Len(yielded) + 1, w |-> w]
          /\ yielded' = Append(yielded, Len(yielded) + 1)
          /\ idx' = idx + 1
          /\ ppc' = "chk1"
    /\ UNCHANGED <<cancelled, current_weight, job_queue, weight_lock,
                   sentinels, admitted, warned, wvars, mvars, uvars>>

\* if cancelled: break; else "with weight_lock:" and the first evaluation of
\* the while condition, which either waits (lock released) or falls through
P_chk1 ==
    /\ ppc = "chk1"
    /\ weight_lock = "free"
    /\ IF cancelled
          THEN /\ ppc' = "fin"
               /\ UNCHANGED weight_lock
          ELSE IF MustWait(current_weight, pjob.w, job_queue)
                  THEN /\ ppc' = "waiting"
                       /\ UNCHANGED weight_lock
                  ELSE /\ ppc' = "chk2"
                       /\ weight_lock' = "producer"
    /\ UNCHANGED <<cancelled, current_weight, job_queue, idx, pjob,
                   sentinels, yielded, admitted, warned, wvars, mvars, uvars>>

\* weight_lock.wait(timeout=1.0) returns (notified or timed out) with the lock
\* held and the while condition is evaluated again; the loop ends when the
\* token is set or the job neither exceeds the budget nor finds the queue full
P_wake ==
    /\ ppc = "waiting"
    /\ weight_lock = "free"
    /\ cancelled \/ ~MustWait(current_weight, pjob.w, job_queue)
    /\ weight_lock' = "producer"
    /\ ppc' = "chk2"
    /\ UNCHANGED <<cancelled, current_weight, job_queue, idx, pjob,
                   sentinels, yielded, admitted, warned, wvars, mvars, uvars>>

\* if cancelled: break (leaving the with block releases the lock)
P_chk2 ==
    /\ ppc = "chk2"
    /\ IF cancelled
          THEN /\ ppc' = "fin"
               /\ weight_lock' = "free"
          ELSE /\ ppc' = "put"
               /\ UNCHANGED weight_lock
    /\ UNCHANGED <<cancelled, current_weight, job_queue, idx, pjob,
                   sentinels, yielded, admitted, warned, wvars, mvars, uvars>>

\* the warning, then job_queue.put((job, weight)): a blocking put
P_put ==
    /\ ppc = "put"
    /\ ~full(job_queue)
    /\ warned' = OverLimit(current_weight, pjob.w)
    /\ job_queue' = put(job_queue, pjob)
    /\ admitted' = Append(admitted, pjob.n)
    /\ ppc' = "inc"
    /\ UNCHANGED <<cancelled, current_weight, weight_lock, idx, pjob,
                   sentinels, yielded, wvars, mvars, uvars>>

\* current_weight += weight; notify_all(); the with block ends
P_inc ==
    /\ ppc = "inc"
    /\ current_weight' = current_weight + pjob.w
    /\ weight_lock' = "free"
    /\ pjob' = Sentinel
    /\ warned' = FALSE
    /\ ppc' = "gen"
    /\ UNCHANGED <<cancelled, job_queue, idx, sentinels, yielded, admitted,
                   wvars, mvars, uvars>>

\* a finally block that puts one sentinel more than there are workers
P_fin_oneMore ==
    /\ ppc = "fin"
    /\ IF sentinels <= THREAD_POOL_SIZE
          THEN /\ ~full(job_queue)
               /\ job_queue' = put(job_queue, Sentinel)
               /\ sentinels' = sentinels + 1
               /\ UNCHANGED ppc
          ELSE /\ weight_lock = "free"
               /\ ppc' = "done"
               /\ UNCHANGED <<job_queue, sentinels>>
    /\ pjob' = Sentinel
    /\ UNCHANGED <<cancelled, current_weight, weight_lock, idx,
                   yielded, admitted, warned, wvars, mvars, uvars>>

\* finally: for _ in range(THREAD_POOL_SIZE): job_queue.put(None), each a
\* blocking put; then "with weight_lock: notify_all()" and the producer returns
P_fin ==
    /\ ppc = "fin"
    /\ IF sentinels < THREAD_POOL_SIZE
          THEN /\ ~full(job_queue)
               /\ job_queue' = put(job_queue, Sentinel)
               /\ sentinels' = sentinels + 1
               /\ UNCHANGED ppc
          ELSE /\ weight_lock = "free"
               /\ ppc' = "done"
               /\ UNCHANGED <<job_queue, sentinels>>
    /\ pjob' = Sentinel
    /\ UNCHANGED <<cancelled, current_weight, weight_lock, idx,
                   yielded, admitted, warned, wvars, mvars, uvars>>

job_producer ==
    \/ P_gen \/ P_chk1 \/ P_wake \/ P_chk2 \/ P_put \/ P_inc \/ P_fin

\* ---- job_consumer ------------------------------------------------------
\* a release that subtracts the weight twice
Release_twice(cw, w) == cw - 2 * w

\* with weight_lock: current_weight -= weight; notify_all()
Release(cw, w) == cw - w

\* while not cancelled: work_to_do = job_queue.get(timeout=1.0); on
\* queue.Empty the iteration starts over; a sentinel: task_done(), break
W_loop(w) ==
    /\ wpc[w] = "loop"
    /\ IF cancelled
          THEN /\ wpc' = [wpc EXCEPT ![w] = "done"]
               /\ UNCHANGED <<job_queue, work, dequeued>>
          ELSE /\ job_queue # <<>>
               /\ job_queue' = Tail(job_queue)
               /\ IF IsJob(Head(job_queue))
                     THEN /\ work' = [work EXCEPT ![w] = Head(job_queue)]
                          /\ dequeued' = Append(dequeued, Head(job_queue).n)
                          /\ wpc' = [wpc EXCEPT ![w] = "chk"]
                     ELSE /\ wpc' = [wpc EXCEPT ![w] = "done"]
                          /\ UNCHANGED <<work, dequeued>>
    /\ UNCHANGED <<cancelled, current_weight, weight_lock, pvars, mvars, uvars,
                   child, outcome, relCount, executed>>

\* a cancellation branch that breaks without releasing the weight
W_chk_noRelease(w) ==
    /\ wpc[w] = "chk"
    /\ IF cancelled
          THEN /\ work' = [work EXCEPT ![w] = Sentinel]
               /\ wpc' = [wpc EXCEPT ![w] = "done"]
               /\ UNCHANGED <<current_weight, relCount>>
          ELSE /\ wpc' = [wpc EXCEPT ![w] = "proc"]
               /\ UNCHANGED <<current_weight, relCount, work>>
    /\ UNCHANGED <<cancelled, job_queue, weight_lock, pvars, mvars, uvars,
                   child, outcome, dequeued, executed>>

\* if cancelled: with weight_lock: release the weight; task_done(); break;
\* else go on to process the block
W_chk(w) ==
    /\ wpc[w] = "chk"
    /\ IF cancelled
          THEN /\ weight_lock = "free"
               /\ current_weight' = Release(current_weight, work[w].w)
               /\ relCount' = [relCount EXCEPT ![work[w].n] = @ + 1]
               /\ work' = [work EXCEPT ![w] = Sentinel]
               /\ wpc' = [wpc EXCEPT ![w] = "done"]
          ELSE /\ wpc' = [wpc EXCEPT ![w] = "proc"]
               /\ UNCHANGED <<current_weight, relCount, work>>
    /\ UNCHANGED <<cancelled, job_queue, weight_lock, pvars, mvars, uvars,
                   child, outcome, dequeued, executed>>

\* process_job(job, token): writing the arguments file may raise; run()
\* raises ShutdownRequested when the token is set before the child starts;
\* else the child is spawned
W_proc(w) ==
    /\ wpc[w] = "proc"
    /\ executed' = executed \cup {work[w].n}
    /\ \/ /\ outcome' = [outcome EXCEPT ![w] = "raised"]
          /\ wpc' = [wpc EXCEPT ![w] = "rel"]
          /\ UNCHANGED child
       \/ IF cancelled
             THEN /\ outcome' = [outcome EXCEPT ![w] = "cancelled"]
                  /\ wpc' = [wpc EXCEPT ![w] = "rel"]
                  /\ UNCHANGED child
             ELSE /\ child' = [child EXCEPT ![w] = "running"]
                  /\ wpc' = [wpc EXCEPT ![w] = "comm"]
                  /\ UNCHANGED outcome
    /\ UNCHANGED <<cancelled, current_weight, job_queue, weight_lock, pvars, mvars, uvars,
                   work, dequeued, relCount>>

\* stdout, stderr = process.communicate(timeout=None): returns when the child
\* has exited by itself; only then is the token read: set -> terminate() on
\* the exited child and ShutdownRequested, else the result is classified
W_comm(w) ==
    /\ wpc[w] = "comm"
    /\ child[w] = "running"
    /\ child' = [child EXCEPT ![w] = "none"]
    /\ IF cancelled
          THEN outcome' = [outcome EXCEPT ![w] = "cancelled"]
          ELSE \E o \in {"success", "failed"} :
                  outcome' = [outcome EXCEPT ![w] = o]
    /\ wpc' = [wpc EXCEPT ![w] = "rel"]
    /\ UNCHANGED <<cancelled, current_weight, job_queue, weight_lock, pvars, mvars, uvars,
                   work, dequeued, relCount, executed>>

\* a worker that ends when its job did not succeed
W_rel_stopOnError(w) ==
    /\ wpc[w] = "rel"
    /\ weight_lock = "free"
    /\ current_weight' = Release(current_weight, work[w].w)
    /\ relCount' = [relCount EXCEPT ![work[w].n] = @ + 1]
    /\ work' = [work EXCEPT ![w] = Sentinel]
    /\ outcome' = [outcome EXCEPT ![w] = "none"]
    /\ wpc' = [wpc EXCEPT ![w] =
                  IF outcome[w] \in {"raised", "failed"} THEN "done" ELSE "loop"]
    /\ UNCHANGED <<cancelled, job_queue, weight_lock, pvars, mvars, uvars,
                   child, dequeued, executed>>

\* after process_job: release the weight, task_done(), next iteration
W_rel(w) ==
    /\ wpc[w] = "rel"
    /\ weight_lock = "free"
    /\ current_weight' = Release(current_weight, work[w].w)
    /\ relCount' = [relCount EXCEPT ![work[w].n] = @ + 1]
    /\ work' = [work EXCEPT ![w] = Sentinel]
    /\ outcome' = [outcome EXCEPT ![w] = "none"]
    /\ wpc' = [wpc EXCEPT ![w] = "loop"]
    /\ UNCHANGED <<cancelled, job_queue, weight_lock, pvars, mvars, uvars,
                   child, dequeued, executed>>

job_consumer(w) ==
    \/ W_loop(w) \/ W_chk(w) \/ W_proc(w) \/ W_comm(w) \/ W_rel(w)

Next ==
    \/ Cancel
    \/ job_producer
    \/ \E w \in Workers : job_consumer(w)

Spec == Init /\ [][Next]_vars

\* a run in which no signal arrives
NextNoCancel ==
    \/ job_producer
    \/ \E w \in Workers : job_consumer(w)

\* every thread that can run does run; the child process of every job exits
Fairness ==
    /\ WF_vars(job_producer)
    /\ \A w \in Workers : WF_vars(job_consumer(w))

\* as Fairness, but a child process need not ever exit by itself
FairnessOfThreads ==
    /\ WF_vars(job_producer)
    /\ \A w \in Workers :
          WF_vars(W_loop(w) \/ W_chk(w) \/ W_proc(w) \/ W_rel(w))

FairSpec == Init /\ [][Next]_vars /\ Fairness
FairThreadsSpec == Init /\ [][Next]_vars /\ FairnessOfThreads
NoCancelSpec == Init /\ [][NextNoCancel]_vars /\ Fairness

\* ---- vocabulary of the properties --------------------------------------
\* the worker holds an entry it pulled and has not released yet
InFlight(w) == wpc[w] \in {"chk", "proc", "comm", "rel"}

RECURSIVE SumWork(_)
SumWork(S) ==
    IF S = {} THEN 0
    ELSE LET w == CHOOSE x \in S : TRUE
         IN  (IF InFlight(w) THEN work[w].w ELSE 0) + SumWork(S \ {w})

\* weight of the jobs in job_queue plus the jobs pulled and not released
Outstanding == SumW(job_queue) + SumWork(Workers)

AllStopped == ppc = "done" /\ \A w \in Workers : wpc[w] = "done"

Range(s) == {s[i] : i \in 1..Len(s)}

IsPrefix(s, t) == Len(s) <= Len(t) /\ \A i \in 1..Len(s) : s[i] = t[i]

AdmissionRule(cw, w) == (cw + w <= MAX_WEIGHT_LIMIT) \/ cw = 0

\* ---- C1 ------------------------------------------------------------------
\* C1: at the step that enqueues a job (put) and at the step that increments
\* the ledger (inc), current_weight + w <= MAX_WEIGHT_LIMIT or
\* current_weight = 0 holds; and the ledger is above the ceiling right after
\* an admission only if it was 0 just before it.
C1_AdmissionRule ==
    [][ /\ (ppc = "put" /\ ppc' = "inc")
           => AdmissionRule(current_weight, pjob.w)
        /\ (ppc = "inc" /\ ppc' = "gen")
           => /\ AdmissionRule(current_weight, pjob.w)
              /\ current_weight' > MAX_WEIGHT_LIMIT => current_weight = 0
      ]_vars

\* an oversized job has been admitted after earlier jobs were released
C1_Witness ==
    /\ ppc = "gen"
    /\ Len(admitted) >= 2
    /\ current_weight > MAX_WEIGHT_LIMIT

\* ---- C2 ------------------------------------------------------------------
\* C2 as claimed: in every reachable state the ledger is >= 0 and equals the
\* weight of the jobs queued or pulled and not yet released.
C2_LedgerIsOutstanding ==
    /\ current_weight >= 0
    /\ current_weight = Outstanding

\* C2 as amended: the ledger is >= 0 in every state; it equals the
\* outstanding weight in every state but those between job_queue.put and
\* current_weight += weight, where it is short by the weight of the job just
\* enqueued (which a worker may already have pulled).
C2_LedgerIsOutstandingOutsidePut ==
    /\ current_weight >= 0
    /\ ppc # "inc" => current_weight = Outstanding
    /\ ppc = "inc" => current_weight + pjob.w = Outstanding

\* a worker has pulled the job the producer enqueued before the ledger counts it
C2_Witness ==
    /\ ppc = "inc"
    /\ pjob.w > 0
    /\ \E w \in Workers : InFlight(w) /\ work[w].n = pjob.n

\* ---- C3 ------------------------------------------------------------------
\* C3: no job's weight is subtracted twice, and when the producer and all
\* workers have stopped every admitted job's weight has been subtracted
\* once and the ledger is 0.
C3_ReleasedExactlyOnce ==
    /\ \A n \in JobIds : relCount[n] <= 1
    /\ AllStopped => /\ \A n \in Range(admitted) : relCount[n] = 1
                     /\ current_weight = 0

\* ---- C4 ------------------------------------------------------------------
\* C4: once the token is set, the producer and every worker eventually
\* return, and then no admitted job holds an unreleased weight claim.
C4_CancelReturnsAll ==
    cancelled ~> (AllStopped /\ current_weight = 0 /\ Outstanding = 0)

\* ---- C5 ------------------------------------------------------------------
\* every generated job was admitted, executed and released once; all threads
\* have returned; the queue is empty and the ledger is 0
Quiescent ==
    /\ AllStopped
    /\ idx = MaxJobs
    /\ admitted = yielded
    /\ executed = Range(yielded)
    /\ \A n \in Range(yielded) : relCount[n] = 1
    /\ job_queue = <<>>
    /\ current_weight = 0

\* C5: without cancellation, and with every child process exiting, every run
\* reaches the quiescent state, whatever the weights of the jobs.
C5_NoDeadlock == <>Quiescent

\* all heights were generated and processed without cancellation
C5_Witness ==
    /\ Quiescent
    /\ ~cancelled
    /\ Len(yielded) = MaxJobs

\* ---- C6 ------------------------------------------------------------------
\* C6: when the producer's loop has ended, THREAD_POOL_SIZE sentinels are
\* eventually appended to job_queue (and never more).
C6_SentinelsAppended ==
    /\ [](sentinels <= THREAD_POOL_SIZE)
    /\ (ppc = "fin") ~> (sentinels = THREAD_POOL_SIZE)

\* ---- C7 ------------------------------------------------------------------
\* C7: job_queue never holds more than QUEUE_MAX_SIZE entries, the producer
\* reaches job_queue.put((job, weight)) only with room in the queue, and
\* while the queue is full (and the token clear) a waiting producer keeps
\* waiting.
C7_QueueBounded ==
    /\ [](/\ Len(job_queue) <= QUEUE_MAX_SIZE
          /\ ppc = "put" => ~full(job_queue))
    /\ [][(ppc = "waiting" /\ full(job_queue) /\ ~cancelled)
             => ppc' = "waiting"]_vars

\* the producer waits only because the queue is full of jobs
C7_Witness ==
    /\ ppc = "waiting"
    /\ ~cancelled
    /\ full(job_queue)
    /\ \A i \in 1..Len(job_queue) : IsJob(job_queue[i])
    /\ AdmissionRule(current_weight, pjob.w)

\* ---- C8 ------------------------------------------------------------------
\* the jobs of job_queue, in queue order
RECURSIVE JobsOf(_)
JobsOf(q) ==
    IF q = <<>> THEN <<>>
    ELSE IF IsJob(Head(q)) THEN <<Head(q).n>> \o JobsOf(Tail(q))
    ELSE JobsOf(Tail(q))

\* C8: the admitted jobs are a prefix of the yielded jobs, the dequeued jobs
\* are a prefix of the admitted jobs, and the queue holds the admitted jobs
\* not yet dequeued, in admission order.
C8_AdmissionOrder ==
    /\ IsPrefix(admitted, yielded)
    /\ IsPrefix(dequeued, admitted)
    /\ dequeued \o JobsOf(job_queue) = admitted

\* three jobs were admitted and the second was dequeued while the third waits
C8_Witness ==
    /\ Len(admitted) >= 3
    /\ Len(dequeued) = 2
    /\ JobsOf(job_queue) # <<>>

\* ---- C9 ------------------------------------------------------------------
\* C9: at every admission the warning is logged if and only if
\* current_weight + weight > MAX_WEIGHT_LIMIT; a job heavier than the
\* ceiling is admitted only at current_weight = 0, with the warning; and,
\* in a run without cancellation, a producer waiting with such a job
\* eventually admits it.
C9_OversizedAdmitted ==
    /\ [][(ppc = "put" /\ ppc' = "inc")
             => /\ warned' <=> (current_weight + pjob.w > MAX_WEIGHT_LIMIT)
                /\ pjob.w > MAX_WEIGHT_LIMIT => (current_weight = 0 /\ warned')
         ]_vars
    /\ (ppc = "waiting" /\ pjob.w > MAX_WEIGHT_LIMIT)
          ~> (ppc = "inc" /\ warned)

\* an oversized job that had to wait was admitted with the warning
C9_Witness ==
    /\ ppc = "inc"
    /\ warned
    /\ pjob.w > MAX_WEIGHT_LIMIT
    /\ Len(dequeued) >= 1

\* ---- C10 -----------------------------------------------------------------
\* C10: when the token is set while a worker's child process is running, the
\* worker returns without the child having to exit by itself.
C10_RunningChildTerminated ==
    \A w \in Workers :
        (cancelled /\ child[w] = "running") ~> (wpc[w] = "done")

\* ---- process_batch and run, taken by themselves ------------------------
\* The child's result: its exit status, the failure markers found in its
\* standard output and in its standard error, and the figure of a
\* "gas_spent=<digits>" in its standard output, if any.
Markers == {"FAIL", "error", "panicked"}
ReturnCodes == {0, 1, -9}
GasFigures == {0, 12345}
GasInfos ==
    {[found |-> FALSE, figure |-> 0]}
        \cup {[found |-> TRUE, figure |-> g] : g \in GasFigures}

\* a classification that looks at the exit status only
Classify_statusOnly(rc, outMarkers, errMarkers, gas) ==
    IF rc # 0
       THEN [kind |-> "failed", oom |-> rc = -9,
             gas |-> IF rc = -9 THEN gas ELSE [found |-> FALSE, figure |-> 0],
             warning |-> FALSE]
       ELSE [kind |-> "success", oom |-> FALSE, gas |-> gas,
             warning |-> ~gas.found]

\* process_batch after run() has returned (stdout, stderr, returncode): the
\* failure test reads returncode and stdout; -9 is the OOM report with the
\* gas figure of stdout; success logs the figure and warns when there is none
Classify(rc, outMarkers, errMarkers, gas) ==
    IF rc # 0 \/ outMarkers # {}
       THEN [kind |-> "failed", oom |-> rc = -9,
             gas |-> IF rc = -9 THEN gas ELSE [found |-> FALSE, figure |-> 0],
             warning |-> FALSE]
       ELSE [kind |-> "success", oom |-> FALSE, gas |-> gas,
             warning |-> ~gas.found]

Cancelled == [kind |-> "cancelled", oom |-> FALSE,
              gas |-> [found |-> FALSE, figure |-> 0], warning |-> FALSE]
NoReport == [kind |-> "none", oom |-> FALSE,
             gas |-> [found |-> FALSE, figure |-> 0], warning |-> FALSE]

\* the calls of process_batch: one per result the child can produce
BatchCalls ==
    [st : {"called"}, rc : ReturnCodes, outMarkers : SUBSET Markers,
     errMarkers : SUBSET Markers, gas : GasInfos,
     tokenBefore : {FALSE}, tokenAfter : {FALSE}, report : {NoReport}]

BatchInit ==
    /\ InitThreads
    /\ gen = NoCall
    /\ pb \in BatchCalls

\* run(): the token is read before the child is started
PB_start ==
    /\ pb.st = "called"
    /\ pb' = IF cancelled
                THEN [pb EXCEPT !.st = "returned", !.tokenBefore = TRUE,
                                !.report = Cancelled]
                ELSE [pb EXCEPT !.st = "running"]
    /\ UNCHANGED <<cancelled, current_weight, job_queue, weight_lock,
                   pvars, wvars, mvars, gen>>

\* run(): communicate() returns, the token is read again; process_batch
\* classifies the result or catches ShutdownRequested
PB_finish ==
    /\ pb.st = "running"
    /\ pb' = IF cancelled
                THEN [pb EXCEPT !.st = "returned", !.tokenAfter = TRUE,
                                !.report = Cancelled]
                ELSE [pb EXCEPT !.st = "returned",
                                !.report = Classify(pb.rc, pb.outMarkers,
                                                    pb.errMarkers, pb.gas)]
    /\ UNCHANGED <<cancelled, current_weight, job_queue, weight_lock,
                   pvars, wvars, mvars, gen>>

BatchNext == Cancel \/ PB_start \/ PB_finish

BatchSpec == BatchInit /\ [][BatchNext]_vars

\* ---- C11 -----------------------------------------------------------------
\* C11 as claimed: a returned call reports cancelled iff the token was set
\* at one of the two reads; otherwise failed iff the exit status is non-zero
\* or standard output or standard error holds a marker, the OOM report being
\* that of status -9 with the gas figure when present; otherwise success with
\* the figure, and a warning iff there is no figure.
C11_Classification ==
    pb.st = "returned" =>
        LET r == pb.report
            failure == pb.rc # 0 \/ pb.outMarkers # {} \/ pb.errMarkers # {}
        IN  /\ r.kind = "cancelled" <=> (pb.tokenBefore \/ pb.tokenAfter)
            /\ r.kind # "cancelled" =>
                  /\ r.kind = "failed" <=> failure
                  /\ r.kind = "success" <=> ~failure
                  /\ r.oom <=> pb.rc = -9
                  /\ (r.oom \/ r.kind = "success") => r.gas = pb.gas
                  /\ r.warning <=> (r.kind = "success" /\ ~pb.gas.found)

\* C11 as amended: the same, with the markers looked for in standard output
\* only.
C11_ClassificationOnStdout ==
    pb.st = "returned" =>
        LET r == pb.report
            failure == pb.rc # 0 \/ pb.outMarkers # {}
        IN  /\ r.kind = "cancelled" <=> (pb.tokenBefore \/ pb.tokenAfter)
            /\ r.kind # "cancelled" =>
                  /\ r.kind = "failed" <=> failure
                  /\ r.kind = "success" <=> ~failure
                  /\ r.oom <=> pb.rc = -9
                  /\ (r.oom \/ r.kind = "success") => r.gas = pb.gas
                  /\ r.warning <=> (r.kind = "success" /\ ~pb.gas.found)

\* a child that exited 0 with a marker on standard error only was reported
\* as a success
C11_Witness ==
    /\ pb.st = "returned"
    /\ pb.rc = 0 /\ pb.outMarkers = {} /\ pb.errMarkers # {}
    /\ pb.report.kind = "success"
    /\ pb.report.gas = [found |-> TRUE, figure |-> 12345]

\* ---- job_generator, taken by itself --------------------------------------
\* bounds of the calls: blocks for the sequential strategy (the random one
\* draws a whole list, so it gets a smaller bound) and the requested step
MaxBlocks == 5
MaxRandomBlocks == 3
MaxStep == 3
Starts == {0, 100}

\* a range that includes its stop value
RECURSIVE PyRange_inclusive(_, _, _)
PyRange_inclusive(start, stop, step) ==
    IF start > stop THEN <<>>
    ELSE <<start>> \o PyRange_inclusive(start + step, stop, step)

\* range(start, stop, step) for a positive step
RECURSIVE PyRange(_, _, _)
PyRange(start, stop, step) ==
    IF start >= stop THEN <<>>
    ELSE <<start>> \o PyRange(start + step, stop, step)

\* random.randint(a, b): an integer N with a <= N <= b
RandInt(a, b) == a..b

\* [random.randint(start, end) for _ in range(start, end)]
RandomHeights(start, end) ==
    [1..Len(PyRange(start, end, 1)) -> RandInt(start, end)]

GenCalls ==
    {c \in [st : {"called"}, strategy : {"sequential", "random"},
            start : Starts, blocks : 0..MaxBlocks, step : 1..MaxStep,
            range : {<<>>}, jstep : {0}, pos : {0}, failed : {{}},
            out : {<<>>}, early : {FALSE}] :
        c.strategy = "random" => c.blocks <= MaxRandomBlocks}

GenInit ==
    /\ InitThreads
    /\ pb = NoCall
    /\ gen \in GenCalls

\* end = start + blocks; height_range, step = ...
G_setup ==
    /\ gen.st = "called"
    /\ LET end == gen.start + gen.blocks
       IN  IF gen.strategy = "random"
              THEN \E hs \in RandomHeights(gen.start, end) :
                      gen' = [gen EXCEPT !.st = "loop", !.range = hs,
                                         !.jstep = 1]
              ELSE gen' = [gen EXCEPT !.st = "loop",
                                      !.range = PyRange(gen.start, end, gen.step),
                                      !.jstep = gen.step]
    /\ UNCHANGED <<cancelled, current_weight, job_queue, weight_lock,
                   pvars, wvars, mvars, pb>>

\* a loop whose try/except is around the for: the first failure ends it
G_iter_stopOnFailure ==
    /\ gen.st = "loop"
    /\ \/ /\ gen.pos = Len(gen.range)
          /\ gen' = [gen EXCEPT !.st = "ended"]
       \/ /\ gen.pos < Len(gen.range)
          /\ cancelled
          /\ gen' = [gen EXCEPT !.st = "ended", !.early = TRUE]
       \/ /\ gen.pos < Len(gen.range)
          /\ ~cancelled
          /\ gen' = [gen EXCEPT !.st = "ended", !.pos = @ + 1,
                                !.failed = @ \cup {gen.pos + 1}]
       \/ /\ gen.pos < Len(gen.range)
          /\ ~cancelled
          /\ gen' = [gen EXCEPT !.pos = @ + 1,
                                !.out = Append(@, [height |-> gen.range[gen.pos + 1],
                                                   step |-> gen.jstep])]
    /\ UNCHANGED <<cancelled, current_weight, job_queue, weight_lock,
                   pvars, wvars, mvars, pb>>

\* for height in height_range: the loop ends when the range is exhausted or
\* the token is set; a failure while generating the item is logged and the
\* loop goes on; else the job Job(height, step, ...) is yielded
G_iter ==
    /\ gen.st = "loop"
    /\ \/ /\ gen.pos = Len(gen.range)
          /\ gen' = [gen EXCEPT !.st = "ended"]
       \/ /\ gen.pos < Len(gen.range)
          /\ cancelled
          /\ gen' = [gen EXCEPT !.st = "ended", !.early = TRUE]
       \/ /\ gen.pos < Len(gen.range)
          /\ ~cancelled
          /\ gen' = [gen EXCEPT !.pos = @ + 1,
                                !.failed = @ \cup {gen.pos + 1}]
       \/ /\ gen.pos < Len(gen.range)
          /\ ~cancelled
          /\ gen' = [gen EXCEPT !.pos = @ + 1,
                                !.out = Append(@, [height |-> gen.range[gen.pos + 1],
                                                   step |-> gen.jstep])]
    /\ UNCHANGED <<cancelled, current_weight, job_queue, weight_lock,
                   pvars, wvars, mvars, pb>>

GenNext == Cancel \/ G_setup \/ G_iter

GenSpec == GenInit /\ [][GenNext]_vars

\* the heights of a sequence of yielded jobs
HeightsOf(jobs) == [i \in 1..Len(jobs) |-> jobs[i].height]

\* the items of s at the positions of 1..n that are not in skip, in order
RECURSIVE Keep(_, _, _)
Keep(s, n, skip) ==
    IF n = 0 THEN <<>>
    ELSE IF n \in skip THEN Keep(s, n - 1, skip)
    ELSE Append(Keep(s, n - 1, skip), s[n])

\* ---- C12 -----------------------------------------------------------------
\* C12: with the random strategy the generator works on exactly `blocks`
\* heights, each in start .. start + blocks - 1, and every job has step 1.
C12_RandomHeights ==
    (gen.st \in {"loop", "ended"} /\ gen.strategy = "random") =>
        /\ Len(gen.range) = gen.blocks
        /\ \A i \in 1..Len(gen.range) :
              gen.range[i] \in gen.start .. (gen.start + gen.blocks - 1)
        /\ \A i \in 1..Len(gen.out) : gen.out[i].step = 1

\* ---- C15 -----------------------------------------------------------------
\* C15: a sequential call that ended without seeing the token and without a
\* generation failure has yielded, in increasing order, exactly the heights
\* start + k * step below start + blocks, each job with the requested step.
C15_SequentialHeights ==
    (/\ gen.st = "ended" /\ gen.strategy = "sequential"
     /\ ~gen.early /\ gen.failed = {}) =>
        LET hs == HeightsOf(gen.out)
        IN  /\ Range(hs) = {h \in gen.start .. (gen.start + gen.blocks - 1) :
                               (h - gen.start) % gen.step = 0}
            /\ \A i \in 1..(Len(hs) - 1) : hs[i] < hs[i + 1]
            /\ \A i \in 1..Len(gen.out) : gen.out[i].step = gen.step

\* start=100, blocks=5, step=2 gave 100, 102, 104
C15_Witness ==
    /\ gen.st = "ended" /\ gen.strategy = "sequential"
    /\ gen.start = 100 /\ gen.blocks = 5 /\ gen.step = 2
    /\ ~gen.early /\ gen.failed = {}
    /\ HeightsOf(gen.out) = <<100, 102, 104>>

\* ---- C18 -----------------------------------------------------------------
\* C18: the jobs yielded so far are those of the heights consumed so far
\* whose generation did not fail, in order; the generator ends only when the
\* range is exhausted or the token was seen, never because of a failure; and
\* it ends early only with the token set.
C18_FailedHeightsSkipped ==
    gen.st \in {"loop", "ended"} =>
        /\ HeightsOf(gen.out) = Keep(gen.range, gen.pos, gen.failed)
        /\ gen.failed \subseteq 1..gen.pos
        /\ gen.st = "ended" => (gen.pos = Len(gen.range) \/ gen.early)
        /\ gen.early => (cancelled /\ gen.pos < Len(gen.range))

\* a height failed in the middle and the heights after it were yielded
C18_Witness ==
    /\ gen.st = "ended"
    /\ ~gen.early
    /\ gen.strategy = "sequential" /\ gen.step = 1 /\ gen.blocks >= 3
    /\ gen.failed = {2}
    /\ Len(gen.out) = gen.blocks - 1

\* ---- C13 -----------------------------------------------------------------
\* C13: when the producer thread and all worker threads have returned,
\* job_queue holds no job entry, whether the run ended by exhaustion of the
\* generator or by cancellation.
C13_NoJobLeftAtShutdown == AllStopped => JobsOf(job_queue) = <<>>

\* ---- main ----------------------------------------------------------------
\* Queue.unfinished_tasks: entries put and not yet marked by task_done()
unfinished_tasks ==
    Len(job_queue) + Cardinality({w \in Workers : InFlight(w)})

\* producer_thread.join()
M_pjoin ==
    /\ mpc = "start"
    /\ ppc = "done"
    /\ mpc' = "while"
    /\ UNCHANGED <<cancelled, current_weight, job_queue, weight_lock,
                   pvars, wvars, summary, uvars>>

\* while not cancelled and not job_queue.empty()
M_while ==
    /\ mpc = "while"
    /\ mpc' = IF ~cancelled /\ job_queue # <<>> THEN "qjoin" ELSE "exit"
    /\ UNCHANGED <<cancelled, current_weight, job_queue, weight_lock,
                   pvars, wvars, summary, uvars>>

\* job_queue.join(); break
M_qjoin ==
    /\ mpc = "qjoin"
    /\ unfinished_tasks = 0
    /\ mpc' = "exit"
    /\ UNCHANGED <<cancelled, current_weight, job_queue, weight_lock,
                   pvars, wvars, summary, uvars>>

\* leaving the with block waits for every worker of the pool; then the
\* summary is chosen by the token
M_exit ==
    /\ mpc = "exit"
    /\ \A w \in Workers : wpc[w] = "done"
    /\ summary' = IF cancelled THEN "Shutdown complete."
                  ELSE "All jobs have been processed."
    /\ mpc' = "done"
    /\ UNCHANGED <<cancelled, current_weight, job_queue, weight_lock,
                   pvars, wvars, uvars>>

main == M_pjoin \/ M_while \/ M_qjoin \/ M_exit

MainNext == Next \/ main

MainSpec == Init /\ [][MainNext]_vars /\ Fairness /\ WF_vars(main)

\* ---- C14 -----------------------------------------------------------------
\* C14: every run of main eventually ends with the summary that matches the
\* token: 'Shutdown complete.' if it is set, 'All jobs have been processed.'
\* otherwise; a signal at any point does not make main hang.
C14_MainReachesSummary ==
    <>(/\ mpc = "done"
       /\ summary = IF cancelled THEN "Shutdown complete."
                    ELSE "All jobs have been processed.")

\* ---- C16 -----------------------------------------------------------------
\* C16: a worker that holds a job it pulled and finds the token set at its
\* test ends, without the job being executed, and its step subtracts the
\* job's weight from current_weight, the only release of that job.
C16_CancelledJobReleased ==
    [][\A w \in Workers :
          (wpc[w] = "chk" /\ cancelled /\ wpc'[w] # "chk") =>
              /\ wpc'[w] = "done"
              /\ work[w].n \notin executed'
              /\ relCount[work[w].n] = 0
              /\ relCount'[work[w].n] = 1
              /\ current_weight' = current_weight - work[w].w]_vars

\* a job of positive weight was pulled, never executed and released once
C16_Witness ==
    /\ cancelled
    /\ \E w \in Workers : wpc[w] = "done"
    /\ \E i \in 1..Len(dequeued) :
          /\ dequeued[i] \notin executed
          /\ relCount[dequeued[i]] = 1
    /\ current_weight = 0
    /\ \E n \in Range(dequeued) : n \in executed

\* ---- C17 -----------------------------------------------------------------
\* C17: a job that raises or fails brings its worker to the release; that
\* release subtracts the job's weight, the only release of the job, and
\* returns the worker to the head of its loop, changing the position of no
\* other thread; and a worker ends only if the token is set or it pulls a
\* sentinel.
C17_ErrorKeepsWorker ==
    [][\A w \in Workers :
          /\ (outcome[w] = "none" /\ outcome'[w] \in {"raised", "failed"}) =>
                wpc'[w] = "rel"
          /\ (/\ wpc[w] = "rel" /\ outcome[w] \in {"raised", "failed"}
              /\ wpc'[w] # "rel") =>
                /\ wpc'[w] = "loop"
                /\ relCount[work[w].n] = 0
                /\ relCount'[work[w].n] = 1
                /\ current_weight' = current_weight - work[w].w
                /\ ppc' = ppc
                /\ \A v \in Workers \ {w} : wpc'[v] = wpc[v]
          /\ (wpc[w] # "done" /\ wpc'[w] = "done") =>
                \/ cancelled
                \/ /\ wpc[w] = "loop"
                   /\ job_queue # <<>>
                   /\ ~IsJob(Head(job_queue))]_vars

\* with no signal, a job has raised, its worker is at the release and
\* another job waits in the queue
C17_Witness ==
    /\ ~cancelled
    /\ \E w \in Workers :
          /\ wpc[w] = "rel"
          /\ outcome[w] = "raised"
          /\ work[w].w > 0
    /\ job_queue # <<>>
    /\ IsJob(Head(job_queue))

\* ---- C19 -----------------------------------------------------------------
\* C19: in job_queue every sentinel comes after every job entry, the
\* producer handles a job only while it has put no sentinel, and at most
\* THREAD_POOL_SIZE sentinels are put.
C19_SentinelsLast ==
    /\ \A i, j \in 1..Len(job_queue) :
          (i < j /\ ~IsJob(job_queue[i])) => ~IsJob(job_queue[j])
    /\ ppc \in {"gen", "chk1", "waiting", "chk2", "put", "inc"} =>
          sentinels = 0
    /\ sentinels <= THREAD_POOL_SIZE

\* all sentinels are in the queue, behind a job
C19_Witness ==
    /\ sentinels = THREAD_POOL_SIZE
    /\ Len(job_queue) = THREAD_POOL_SIZE + 1
    /\ IsJob(job_queue[1])
    /\ ~IsJob(job_queue[2])

\* ---- C20 -----------------------------------------------------------------
\* the entries of positive weight in the queue
HeavyQueued == {i \in 1..Len(job_queue) : job_queue[i].w > 0}

\* the workers that hold a pulled, unreleased job of positive weight
HeavyInFlight == {w \in Workers : InFlight(w) /\ work[w].w > 0}

\* C20: whenever current_weight > MAX_WEIGHT_LIMIT, exactly one outstanding
\* job (queued or in flight) has a positive weight, that weight is the whole
\* of current_weight, and the producer is not putting or accounting any job.
C20_OverCeilingIsOneJob ==
    current_weight > MAX_WEIGHT_LIMIT =>
        /\ Cardinality(HeavyQueued) + Cardinality(HeavyInFlight) = 1
        /\ \A i \in HeavyQueued : job_queue[i].w = current_weight
        /\ \A w \in HeavyInFlight : work[w].w = current_weight
        /\ ppc \notin {"put", "inc"}

\* over the ceiling with a job of weight 0 outstanding too, room in the
\* queue, and the producer waiting with a job of positive weight
C20_Witness ==
    /\ current_weight > MAX_WEIGHT_LIMIT
    /\ \E i \in 1..Len(job_queue) :
          IsJob(job_queue[i]) /\ job_queue[i].w = 0
    /\ ~full(job_queue)
    /\ ppc = "waiting"
    /\ pjob.w > 0

====
